---- MODULE Spec2Model ----
(***************************************************************************)
(* Model of Snap.CoreRun: the CoreCLR bootstrap sequence (coreclr.cpp) and  *)
(* the platform abstraction layer it rests on (pal/pal.cpp).                *)
(*                                                                          *)
(* Strings are sequences of one-character strings, so that the string      *)
(* operations of the code (find_last_of, case-insensitive compare, version *)
(* parsing) are computed and not assumed.                                   *)
(***************************************************************************)
EXTENDS Integers, Sequences, FiniteSets, TLC

(***************************************************************************)
(* Bounds of the model                                                      *)
(***************************************************************************)
\* Largest number of entries the enumeration of the installed-runtimes root returns.
MaxEntries == 2

\* Largest number of references the module table keeps per library.
MaxRefs == 2

\* Largest number of iterations of a spinning loop that the model records.
MaxSpin == 2

(***************************************************************************)
(* Strings                                                                  *)
(***************************************************************************)
\* A null pointer where the value is an opaque handle.
Null == "null"

\* A null pointer where the value is a string: no string has this character.
NullStr == <<"nullptr">>

\* A null pointer where the value is a core_clr_instance.
NullInstance == [null |-> TRUE]

\* No call made yet.
NoCall == [call |-> "none"]

\* PAL_DIRECTORY_SEPARATOR_C of the Windows build, the only build of coreclr.cpp.
PAL_DIRECTORY_SEPARATOR_C == "\\"

Digits == <<"0", "1", "2", "3", "4", "5", "6", "7", "8", "9">>

IsDigit(c) == \E i \in 1..10 : Digits[i] = c

DigitValue(c) == (CHOOSE i \in 1..10 : Digits[i] = c) - 1

\* std::toupper over the letters the model's strings use.
ToUpper(c) ==
    CASE c = "t" -> "T"
      [] c = "r" -> "R"
      [] c = "u" -> "U"
      [] c = "e" -> "E"
      [] c = "f" -> "F"
      [] c = "a" -> "A"
      [] c = "l" -> "L"
      [] c = "s" -> "S"
      [] c = "n" -> "N"
      [] c = "o" -> "O"
      [] c = "b" -> "B"
      [] OTHER -> c

\* Position of the last occurrence of character c in s, 0 when there is none
\* (std::string::find_last_of, with 0 for npos).
FindLastOf(s, c) ==
    IF \E i \in 1..Len(s) : s[i] = c
    THEN CHOOSE i \in 1..Len(s) : s[i] = c /\ \A j \in (i+1)..Len(s) : s[j] # c
    ELSE 0

\* Position of the first occurrence of character c in s, 0 when there is none.
FindFirstOf(s, c) ==
    IF \E i \in 1..Len(s) : s[i] = c
    THEN CHOOSE i \in 1..Len(s) : s[i] = c /\ \A j \in 1..(i-1) : s[j] # c
    ELSE 0

\* s without its first n characters.
DropFirst(s, n) == SubSeq(s, n + 1, Len(s))

\* BOOL pal_str_iequals(lhs, rhs): TRUE when the strings are equal ignoring case.
pal_str_iequals(lhs, rhs) ==
    /\ Len(lhs) = Len(rhs)
    /\ \A i \in 1..Len(lhs) : lhs[i] = rhs[i] \/ ToUpper(lhs[i]) = ToUpper(rhs[i])

(***************************************************************************)
(* Semantic versions (version::Semver200_version)                           *)
(***************************************************************************)
ParseError == [error |-> "Parse_error"]

\* A numeric identifier: digits only, not empty, no leading zero.
IsNumericId(s) ==
    /\ Len(s) > 0
    /\ \A i \in 1..Len(s) : IsDigit(s[i])
    /\ (Len(s) > 1 => s[1] # "0")

RECURSIVE NumericValue(_)
NumericValue(s) ==
    IF Len(s) = 0 THEN 0
    ELSE 10 * NumericValue(SubSeq(s, 1, Len(s) - 1)) + DigitValue(s[Len(s)])

\* A pre-release identifier: not empty, letters, digits and hyphens only.
IsPrereleaseId(s) ==
    /\ Len(s) > 0
    /\ \A i \in 1..Len(s) : s[i] \notin {".", "+", PAL_DIRECTORY_SEPARATOR_C}

\* The pieces of s between the occurrences of character c.
RECURSIVE SplitOn(_, _)
SplitOn(s, c) ==
    LET p == FindFirstOf(s, c) IN
    IF p = 0 THEN <<s>>
    ELSE <<SubSeq(s, 1, p - 1)>> \o SplitOn(DropFirst(s, p), c)

\* Semver200_version(const std::string&): the version a string denotes, or
\* the Parse_error the constructor throws.
ParseVersion(s) ==
    LET dash == FindFirstOf(s, "-")
        core == IF dash = 0 THEN s ELSE SubSeq(s, 1, dash - 1)
        pre  == IF dash = 0 THEN <<>> ELSE SplitOn(DropFirst(s, dash), ".")
        nums == SplitOn(core, ".")
    IN  IF /\ Len(nums) = 3
           /\ \A i \in 1..3 : IsNumericId(nums[i])
           /\ \A i \in 1..Len(pre) : IsPrereleaseId(pre[i])
        THEN [major |-> NumericValue(nums[1]), minor |-> NumericValue(nums[2]),
              patch |-> NumericValue(nums[3]), prerelease |-> pre]
        ELSE ParseError

\* Semver200_version(): the default version 0.0.0.
DefaultVersion == [major |-> 0, minor |-> 0, patch |-> 0, prerelease |-> <<>>]

\* Order of two pre-release identifiers: numeric ones by value and below the
\* others, the others by their characters.
CharRank(c) ==
    CASE IsDigit(c) -> DigitValue(c)
      [] c = "-" -> 10
      [] c = "a" -> 11
      [] c = "b" -> 12
      [] OTHER -> 13

RECURSIVE LexLess(_, _)
LexLess(a, b) ==
    IF Len(b) = 0 THEN FALSE
    ELSE IF Len(a) = 0 THEN TRUE
    ELSE IF CharRank(a[1]) # CharRank(b[1]) THEN CharRank(a[1]) < CharRank(b[1])
    ELSE LexLess(Tail(a), Tail(b))

IdLess(a, b) ==
    IF IsNumericId(a) /\ IsNumericId(b) THEN NumericValue(a) < NumericValue(b)
    ELSE IF IsNumericId(a) THEN TRUE
    ELSE IF IsNumericId(b) THEN FALSE
    ELSE LexLess(a, b)

RECURSIVE PrereleaseLess(_, _)
PrereleaseLess(a, b) ==
    IF Len(b) = 0 THEN FALSE
    ELSE IF Len(a) = 0 THEN TRUE
    ELSE IF IdLess(a[1], b[1]) THEN TRUE
    ELSE IF IdLess(b[1], a[1]) THEN FALSE
    ELSE PrereleaseLess(Tail(a), Tail(b))

\* operator< of two versions: major, minor, patch, then a version with a
\* pre-release part is below the same version without one.
VersionLess(a, b) ==
    IF a.major # b.major THEN a.major < b.major
    ELSE IF a.minor # b.minor THEN a.minor < b.minor
    ELSE IF a.patch # b.patch THEN a.patch < b.patch
    ELSE IF a.prerelease = <<>> THEN FALSE
    ELSE IF b.prerelease = <<>> THEN TRUE
    ELSE PrereleaseLess(a.prerelease, b.prerelease)

(***************************************************************************)
(* Paths and the file system                                                *)
(***************************************************************************)
\* core_clr_dll
core_clr_dll == <<"c", ".", "d", "l", "l">>

\* The expansion of core_clr_program_files_directory_path when %programfiles%
\* is set.
InstalledRoot == <<"P">>

\* The target executable of the run and the directory it lies in.
ExecutablePath == <<"A", PAL_DIRECTORY_SEPARATOR_C, "f", ".", "e", "x", "e">>

\* Names the entries of the installed-runtimes root are drawn from: versions,
\* a pre-release, a two-digit minor, and names that are no version.
DirNames ==
    { <<"1", ".", "9", ".", "0">>,
      <<"2", ".", "0", ".", "0">>,
      <<"2", ".", "1", ".", "5">>,
      <<"2", ".", "1", "0", ".", "0">>,
      <<"2", ".", "0", ".", "0", "-", "a">>,
      <<"2", ".", "0">>,
      <<"b">> }

\* Minimum versions a caller passes.
MinVersions ==
    { DefaultVersion,
      [major |-> 2, minor |-> 0, patch |-> 0, prerelease |-> <<>>],
      [major |-> 2, minor |-> 1, patch |-> 6, prerelease |-> <<>>] }

\* One entry of a directory enumeration: its name, whether it is a directory,
\* and whether the directory holds the runtime library.
EntryKinds == { [dir |-> FALSE, dll |-> FALSE],
                [dir |-> TRUE,  dll |-> FALSE],
                [dir |-> TRUE,  dll |-> TRUE] }

Entries == { [name |-> n, dir |-> k.dir, dll |-> k.dll] : n \in DirNames, k \in EntryKinds }

\* The enumerations of the root in the order the OS yields them: no name twice.
RECURSIVE ListingsOfLen(_)
ListingsOfLen(n) ==
    IF n = 0 THEN { <<>> }
    ELSE { Append(l, e) : l \in ListingsOfLen(n - 1), e \in Entries } 

NoNameTwice(l) == \A i, j \in 1..Len(l) : i # j => l[i].name # l[j].name

Listings == UNION { { l \in ListingsOfLen(n) : NoNameTwice(l) } : n \in 0..MaxEntries }

\* What the enumeration of the root yields: a failure (the root does not
\* exist), or its entries.
RootListings ==
    { [ok |-> FALSE, entries |-> <<>>] } \cup { [ok |-> TRUE, entries |-> l] : l \in Listings }

\* pal_fs_path_combine, Windows branch: PathCchCombine of a directory and a
\* relative name, the two joined by exactly one separator.
PathCchCombine(path1, path2) ==
    IF Len(path1) > 0 /\ path1[Len(path1)] = PAL_DIRECTORY_SEPARATOR_C
    THEN path1 \o path2
    ELSE path1 \o <<PAL_DIRECTORY_SEPARATOR_C>> \o path2

\* pal_fs_get_directory_name: the part after the last separator, NullStr when
\* the path has no separator.
pal_fs_get_directory_name(path_in) ==
    LET pos == FindLastOf(path_in, PAL_DIRECTORY_SEPARATOR_C) IN
    IF pos = 0 THEN NullStr ELSE DropFirst(path_in, pos)

\* pal_fs_get_directory_name_full_path: the path without its file
\* specification, NullStr when nothing is left.
pal_fs_get_directory_name_full_path(path_in) ==
    LET pos == FindLastOf(path_in, PAL_DIRECTORY_SEPARATOR_C) IN
    IF pos <= 1 THEN NullStr ELSE SubSeq(path_in, 1, pos - 1)

\* What FindFirstFile/FindNextFile yield for a directory: "." and ".." and
\* then its entries.
RawEnumeration(listing) ==
    << [name |-> <<".">>, dir |-> TRUE, dll |-> FALSE],
       [name |-> <<".", ".">>, dir |-> TRUE, dll |-> FALSE] >> \o listing

\* pal_fs_list_impl with type 0 (directories), Windows branch: the absolute
\* paths of the subdirectories, "." and ".." left out.
RECURSIVE pal_fs_list_directories(_, _)
pal_fs_list_directories(path_in, raw) ==
    IF Len(raw) = 0 THEN <<>>
    ELSE LET file == raw[1]
             rest == pal_fs_list_directories(path_in, Tail(raw))
         IN  IF ~file.dir THEN rest
             ELSE IF pal_str_iequals(file.name, <<".">>) \/ pal_str_iequals(file.name, <<".", ".">>)
                  THEN rest
             ELSE <<PathCchCombine(path_in, file.name)>> \o rest

\* The files that exist below the root, given its enumeration.
FilesOf(root, listing) ==
    { PathCchCombine(PathCchCombine(root, listing[i].name), core_clr_dll) :
        i \in { j \in 1..Len(listing) : listing[j].dir /\ listing[j].dll } }

(***************************************************************************)
(* Version-aware runtime locator                                            *)
(***************************************************************************)
\* The body of the loop of get_core_directories_from_path for one path: the
\* candidate it adds, or the reason it adds none.
ExamineDirectory(core_clr_path, files, clr_minimum_version) ==
    LET name == pal_fs_get_directory_name(core_clr_path) IN
    IF name = NullStr THEN [skip |-> "no_name"]
    ELSE LET core_clr_version == ParseVersion(name) IN
         IF core_clr_version = ParseError THEN [skip |-> "parse_error"]
         ELSE IF VersionLess(core_clr_version, clr_minimum_version) THEN [skip |-> "below_minimum"]
         ELSE LET core_clr_dll_path == PathCchCombine(core_clr_path, core_clr_dll) IN
              IF core_clr_dll_path \notin files THEN [skip |-> "no_library"]
              ELSE [skip |-> "none",
                    directory |-> [root_path |-> core_clr_path, dll_path |-> core_clr_dll_path,
                                   version |-> core_clr_version]]

\* A loop whose try block encloses it: the first name that does not parse
\* ends the scan.
RECURSIVE ScanDirectories_parse_error_ends_scan(_, _, _)
ScanDirectories_parse_error_ends_scan(paths, files, clr_minimum_version) ==
    IF Len(paths) = 0 THEN [directories |-> <<>>, examined |-> {}]
    ELSE LET r == ExamineDirectory(paths[1], files, clr_minimum_version) IN
         IF r.skip = "parse_error" THEN [directories |-> <<>>, examined |-> {paths[1]}]
         ELSE LET rest == ScanDirectories_parse_error_ends_scan(Tail(paths), files, clr_minimum_version)
              IN  [directories |-> (IF r.skip = "none" THEN <<r.directory>> ELSE <<>>)
                                       \o rest.directories,
                   examined    |-> {paths[1]} \cup rest.examined]

\* The loop over the enumerated paths: the candidates in enumeration order
\* and the paths the loop examined.
RECURSIVE ScanDirectories(_, _, _)
ScanDirectories(paths, files, clr_minimum_version) ==
    IF Len(paths) = 0 THEN [directories |-> <<>>, examined |-> {}]
    ELSE LET r    == ExamineDirectory(paths[1], files, clr_minimum_version)
             rest == ScanDirectories(Tail(paths), files, clr_minimum_version)
         IN  [directories |-> (IF r.skip = "none" THEN <<r.directory>> ELSE <<>>) \o rest.directories,
              examined    |-> {paths[1]} \cup rest.examined]

\* std::sort with the comparator lhs.get_version() < rhs.get_version().
RECURSIVE InsertByVersion(_, _)
InsertByVersion(sorted, d) ==
    IF Len(sorted) = 0 THEN <<d>>
    ELSE IF VersionLess(d.version, sorted[1].version) THEN <<d>> \o sorted
    ELSE <<sorted[1]>> \o InsertByVersion(Tail(sorted), d)

\* No sort: the candidates stay in enumeration order.
SortByVersion_enumeration_order(ds) == ds

RECURSIVE SortByVersion(_)
SortByVersion(ds) ==
    IF Len(ds) = 0 THEN <<>>
    ELSE InsertByVersion(SortByVersion(SubSeq(ds, 1, Len(ds) - 1)), ds[Len(ds)])

\* get_core_directories_from_path: fs.ok is FALSE when the enumeration of
\* the root fails.
get_core_directories_from_path(core_clr_root_path, fs, clr_minimum_version) ==
    IF ~fs.ok THEN [directories |-> <<>>, examined |-> {}]
    ELSE LET core_clr_paths == pal_fs_list_directories(core_clr_root_path, RawEnumeration(fs.entries))
             scan == ScanDirectories(core_clr_paths, FilesOf(core_clr_root_path, fs.entries),
                                     clr_minimum_version)
         IN  [directories |-> SortByVersion(scan.directories), examined |-> scan.examined]

(***************************************************************************)
(* Module table of the process and the runtime loader                       *)
(***************************************************************************)
\* The module table maps the path of a library to its reference count and
\* to whether it is pinned. A library is loaded while its count is positive.
LibRefs(table, path) == IF path \in DOMAIN table THEN table[path].refs ELSE 0

LibPinned(table, path) == IF path \in DOMAIN table THEN table[path].pinned ELSE FALSE

SetLib(table, path, entry) ==
    [q \in DOMAIN table \cup {path} |-> IF q = path THEN entry ELSE table[q]]

\* LoadLibraryEx / dlopen succeeding: one more reference.
LoadLibrary(table, path) ==
    SetLib(table, path, [refs |-> LibRefs(table, path) + 1, pinned |-> LibPinned(table, path)])

\* GetModuleHandleExW(GET_MODULE_HANDLE_EX_FLAG_PIN) succeeding.
PinLibrary(table, path) ==
    SetLib(table, path, [refs |-> LibRefs(table, path), pinned |-> TRUE])

\* FreeLibrary / dlclose: one reference less, unless the library is pinned.
FreeLibrary(table, path) ==
    IF LibPinned(table, path) \/ LibRefs(table, path) = 0 THEN table
    ELSE SetLib(table, path, [refs |-> LibRefs(table, path) - 1, pinned |-> FALSE])

\* The libraries that are loaded and can still be unloaded.
LoadedUnpinned(table) == { p \in DOMAIN table : table[p].refs > 0 /\ ~table[p].pinned }

\* What the operating system answers to a load followed by a pin.
LoadOutcomes == {"load_failed", "pin_failed", "loaded"}

\* The core_clr_instance the loader constructs: the host is not created yet.
NewInstance(ptr, directory_path, dll_path, version) ==
    [ptr |-> ptr,
     directory |-> [root_path |-> directory_path, dll_path |-> dll_path, version |-> version],
     loaded |-> TRUE, host_created |-> FALSE, host |-> Null]

\* try_load_core_clr(directory_path, core_clr_version): the instance (or NullInstance)
\* and the module table it leaves behind.
try_load_core_clr(directory_path, core_clr_version, files, outcome, table) ==
    LET core_clr_dll_path == PathCchCombine(directory_path, core_clr_dll) IN
    IF core_clr_dll_path \notin files
    THEN [instance |-> NullInstance, libs |-> table]
    ELSE IF outcome = "load_failed"
    THEN [instance |-> NullInstance, libs |-> table]
    ELSE IF outcome = "pin_failed"
    THEN [instance |-> NullInstance, libs |-> LoadLibrary(table, core_clr_dll_path)]
    ELSE [instance |-> NewInstance(core_clr_dll_path, directory_path, core_clr_dll_path, core_clr_version),
          libs |-> PinLibrary(LoadLibrary(table, core_clr_dll_path), core_clr_dll_path)]

(***************************************************************************)
(* Environment                                                              *)
(***************************************************************************)
Unset == <<"unset">>

server_gc_environment_var == "CORECLR_SERVER_GC"

concurrent_gc_environment_var == "CORECLR_CONCURRENT_GC"

GcVariables == {server_gc_environment_var, concurrent_gc_environment_var}

\* Values an environment variable is drawn from.
EnvValues ==
    { <<"1">>, <<"0">>, <<>>,
      <<"t", "r", "u", "e">>, <<"T", "R", "U", "E">>, <<"T", "r", "u", "e">>,
      <<"f", "a", "l", "s", "e">>, <<"n", "o">>, <<"1", "1">>, <<"t", "r", "u", "e", "s">> }

Environments == [GcVariables -> EnvValues \cup {Unset}]

\* pal_env_get_variable: FALSE when the variable is not set.
pal_env_get_variable(environment, environment_variable_in) ==
    IF environment_variable_in \notin DOMAIN environment
    THEN [ret |-> FALSE, value |-> NullStr]
    ELSE IF environment[environment_variable_in] = Unset
    THEN [ret |-> FALSE, value |-> NullStr]
    ELSE [ret |-> TRUE, value |-> environment[environment_variable_in]]

\* The int a BOOL is: TRUE is 1 and FALSE is 0.
BoolInt(b) == IF b THEN 1 ELSE 0

\* pal_env_get_variable_bool: the return value and the out-parameter, which
\* keeps the caller's value when the function returns FALSE.
pal_env_get_variable_bool(environment, environment_variable_in, out_before) ==
    LET v == pal_env_get_variable(environment, environment_variable_in) IN
    IF ~v.ret THEN [ret |-> FALSE, out |-> out_before]
    ELSE [ret |-> TRUE,
          out |-> \/ BoolInt(pal_str_iequals(v.value, <<"1">>)) = 0
                  \/ BoolInt(pal_str_iequals(v.value, <<"t", "r", "u", "e">>)) = 0]

\* STARTUP_FLAGS as the set of the flags that are set.
BaselineFlags == {"STARTUP_LOADER_OPTIMIZATION_SINGLE_DOMAIN", "STARTUP_SINGLE_APPDOMAIN",
                  "STARTUP_CONCURRENT_GC"}

\* read_flag_for_environment_variable of create_clr_startup_flags.
read_flag_for_environment_variable(flags, environment, startup_flag, environment_variable) ==
    LET r == pal_env_get_variable_bool(environment, environment_variable, FALSE) IN
    IF ~r.ret THEN flags
    ELSE IF r.out THEN flags \cup {startup_flag}
    ELSE flags \ {startup_flag}

\* create_clr_startup_flags
create_clr_startup_flags(environment) ==
    read_flag_for_environment_variable(
        read_flag_for_environment_variable(BaselineFlags, environment,
            "STARTUP_SERVER_GC", server_gc_environment_var),
        environment, "STARTUP_CONCURRENT_GC", concurrent_gc_environment_var)

(***************************************************************************)
(* Trusted platform assemblies                                              *)
(***************************************************************************)
\* Largest number of files besides the runtime library in the runtime directory.
MaxFiles == 2

\* trusted_platform_assemblies_extension_list, in its order.
trusted_platform_assemblies_extension_list ==
    << <<"*", ".", "n", "i", ".", "d", "l", "l">>,
       <<"*", ".", "d", "l", "l">>,
       <<"*", ".", "n", "i", ".", "e", "x", "e">>,
       <<"*", ".", "e", "x", "e">>,
       <<"*", ".", "n", "i", ".", "w", "i", "n", "m", "d">>,
       <<"*", ".", "w", "i", "n", "m", "d">> >>

\* Names of the files a runtime directory may hold besides the runtime library.
RuntimeFileNames ==
    { <<"a", ".", "d", "l", "l">>,
      <<"a", ".", "n", "i", ".", "d", "l", "l">>,
      <<"f", ".", "e", "x", "e">> }

RECURSIVE FileListingsOfLen(_)
FileListingsOfLen(n) ==
    IF n = 0 THEN { <<>> }
    ELSE { Append(l, f) : l \in FileListingsOfLen(n - 1), f \in RuntimeFileNames }

NoFileTwice(l) == \A i, j \in 1..Len(l) : i # j => l[i] # l[j]

\* The enumerations of a runtime directory: the runtime library and up to
\* MaxFiles other files, in the order the OS yields them.
RuntimeDirListings ==
    UNION { { <<core_clr_dll>> \o l : l \in { m \in FileListingsOfLen(n) : NoFileTwice(m) } } :
            n \in 0..MaxFiles }

\* FindFirstFile's match of a name against the pattern "*" followed by a
\* suffix: the name ends with the suffix, ignoring case.
WildcardMatch(name, pattern) ==
    LET suffix == Tail(pattern) IN
    /\ Len(name) >= Len(suffix)
    /\ pal_str_iequals(SubSeq(name, Len(name) - Len(suffix) + 1, Len(name)), suffix)

\* pal_fs_list_files with an extension filter, Windows branch: the absolute
\* paths of the matching files in enumeration order.
RECURSIVE pal_fs_list_files(_, _, _)
pal_fs_list_files(path_in, listing, filter_extension_in) ==
    IF Len(listing) = 0 THEN <<>>
    ELSE (IF WildcardMatch(listing[1], filter_extension_in)
          THEN <<PathCchCombine(path_in, listing[1])>> ELSE <<>>)
         \o pal_fs_list_files(path_in, Tail(listing), filter_extension_in)

InSeq(x, seq) == \E i \in 1..Len(seq) : seq[i] = x

\* A search that finds no path in the list.
is_previously_added_never(list, file) == FALSE

\* std::find(list.begin(), list.end(), file) != list.end()
is_previously_added(list, file) == InSeq(file, list)

\* The inner loop of get_trusted_platform_assemblies: add the files that were
\* not added before.
RECURSIVE AddFiles(_, _)
AddFiles(list, files) ==
    IF Len(files) = 0 THEN list
    ELSE AddFiles(IF is_previously_added(list, files[1]) THEN list
                  ELSE Append(list, files[1]), Tail(files))

\* The outer loop of get_trusted_platform_assemblies, from extension k on.
RECURSIVE ScanExtensions(_, _, _, _)
ScanExtensions(list, path, listing, k) ==
    IF k > Len(trusted_platform_assemblies_extension_list) THEN list
    ELSE ScanExtensions(
            AddFiles(list, pal_fs_list_files(path, listing, trusted_platform_assemblies_extension_list[k])),
            path, listing, k + 1)

\* get_trusted_platform_assemblies
get_trusted_platform_assemblies(trusted_platform_assemblies_path, listing) ==
    IF trusted_platform_assemblies_path = NullStr THEN <<>>
    ELSE ScanExtensions(<<>>, trusted_platform_assemblies_path, listing, 1)

\* The list build_trusted_platform_assemblies_str serializes: the assemblies
\* of the runtime directory and the executable when it is not among them.
trusted_platform_assemblies_of(executable_path, instance, listing) ==
    LET tpa == get_trusted_platform_assemblies(instance.directory.root_path, listing) IN
    IF is_previously_added(tpa, executable_path) THEN tpa ELSE Append(tpa, executable_path)

RECURSIVE JoinPaths(_, _)
JoinPaths(list, i) ==
    IF i > Len(list) THEN <<>>
    ELSE list[i] \o (IF i + 1 <= Len(list) THEN <<";">> ELSE <<>>) \o JoinPaths(list, i + 1)

\* build_trusted_platform_assemblies_str
build_trusted_platform_assemblies_str(executable_path, instance, listing) ==
    IF instance = NullInstance THEN <<>>
    ELSE JoinPaths(trusted_platform_assemblies_of(executable_path, instance, listing), 1)

(***************************************************************************)
(* 32-bit integers                                                          *)
(***************************************************************************)
\* unsigned long and int are 32 bits wide in the Windows build. A 32-bit
\* unsigned value is kept as its two 16-bit halves, hi * 2^16 + lo.
Two15 == 32768

Two16 == 65536

Unsigned(hi, lo) == [hi |-> hi, lo |-> lo]

\* Exit codes ExecuteAssembly writes: 0, 1, 255, 2^31 - 1, 2^31, 2^32 - 2, 2^32 - 1.
ExitCodes ==
    { Unsigned(0, 0), Unsigned(0, 1), Unsigned(0, 255), Unsigned(Two15 - 1, Two16 - 1),
      Unsigned(Two15, 0), Unsigned(Two16 - 1, Two16 - 2), Unsigned(Two16 - 1, Two16 - 1) }

\* A conversion through a 16-bit integer: the upper half is lost.
ToInt_low_word(u) == u.lo

\* The conversion of the unsigned long exit code to the int run returns:
\* the value with the same 32 bits.
ToInt(u) ==
    IF u.hi >= Two15 THEN (u.hi - Two16) * Two16 + u.lo ELSE u.hi * Two16 + u.lo

(***************************************************************************)
(* State                                                                    *)
(***************************************************************************)
VARIABLES
    pc,                              \* position of the running operation
    executable_path,                 \* run: the target executable
    clr_minimum_version,             \* run, locator: the caller's minimum version
    executable_working_directory,    \* run: directory of the target
    stages,                          \* run: the stages entered, each with its status
    host_calls,                      \* run: the hosting-interface calls issued, in order
    attempts,                        \* run: the directories the loader was called on, in order
    core_clr_directories,            \* run, locator: the candidates the locator returned
    cand_idx,                        \* run: index of the next candidate to try
    core_clr_instance,               \* run: the instance the discovery returned, or NullInstance
    instances_created,               \* run: number of core_clr_instance objects constructed
    clr_runtime_host,                \* run: the host interface, or Null
    startup_flags,                   \* run, environment: result of create_clr_startup_flags
    trusted_platform_assemblies_str, \* run: the serialized trusted-assembly list
    execute_assembly_exit_code,      \* run: the unsigned exit code ExecuteAssembly wrote
    rc,                              \* run: the value run returned, <<>> before it returns
    spin,                            \* run: iterations of a loop that makes no progress
    scans,                           \* run: number of enumerations of the installed root
    libs,                            \* module table of the process
    root_listing,                    \* locator: enumeration of the root, and whether it succeeds
    examined,                        \* locator: the paths the scan examined
    environment,                     \* environment: the GC variables
    bool_result,                     \* environment: last pal_env_get_variable_bool call
    platform,                        \* PAL: the build
    pal_call                         \* PAL: the call in progress or the last call made

runVars == <<executable_path, executable_working_directory, stages, host_calls, attempts,
             cand_idx, core_clr_instance, instances_created, clr_runtime_host,
             trusted_platform_assemblies_str, execute_assembly_exit_code, rc, spin, scans>>

locVars == <<root_listing, examined>>

envVars == <<environment, bool_result>>

palVars == <<platform, pal_call>>

vars == <<pc, clr_minimum_version, core_clr_directories, startup_flags, libs,
          runVars, locVars, envVars, palVars>>

\* The state of the parts an operation does not use.
RunIdle ==
    /\ executable_path = NullStr /\ executable_working_directory = NullStr
    /\ stages = <<>> /\ host_calls = <<>> /\ attempts = <<>> /\ cand_idx = 0
    /\ core_clr_instance = NullInstance /\ instances_created = 0 /\ clr_runtime_host = Null
    /\ trusted_platform_assemblies_str = NullStr /\ execute_assembly_exit_code = Unsigned(0, 0)
    /\ rc = <<>> /\ spin = 0 /\ scans = 0

LocIdle == root_listing = [ok |-> FALSE, entries |-> <<>>] /\ examined = {}

EnvIdle == environment = [v \in GcVariables |-> Unset] /\ bool_result = NoCall

PalIdle == platform = Null /\ pal_call = NoCall

(***************************************************************************)
(* snap::coreclr::run                                                       *)
(***************************************************************************)
\* The stages of run in the order of the code.
StageOrder ==
    <<"validate", "discover", "get_host", "SetStartupFlags", "Start", "build_tpa",
      "create_appdomain", "ExecuteAssembly", "UnloadAppDomain", "Stop", "Release">>

\* The calls on the hosting interface in the order of the code.
HostCallOrder ==
    <<"SetStartupFlags", "Start", "CreateAppDomainWithManager", "ExecuteAssembly",
      "UnloadAppDomain", "Stop", "Release">>

\* Target executables a caller passes: one in a directory, one bare file name.
ExecutablePaths == { ExecutablePath, <<"f", ".", "e", "x", "e">> }

\* return -1;
FailureCode == -1

\* return false; in a function returning int.
ReturnFalse == BoolInt(FALSE)

\* A FAILED that takes every status for a success.
FAILED_never(hr_ok) == FALSE

\* FAILED(hr): the status of a hosting-interface call is a failure.
FAILED(hr_ok) == ~hr_ok

Return(value) == pc' = "done" /\ rc' = <<value>>

Entered(stage, ok) ==
    stages' = Append(stages, [stage |-> stage, status |-> IF ok THEN "ok" ELSE "failed"])

Called(call) == host_calls' = Append(host_calls, call)

\* The instance after the host's Start succeeded.
InstanceAfterStart(instance, host) ==
    { instance, [instance EXCEPT !.host_created = TRUE, !.host = host] }

Init ==
    /\ pc = "run"
    /\ executable_path \in ExecutablePaths
    /\ clr_minimum_version \in MinVersions
    /\ executable_working_directory = NullStr
    /\ stages = <<>> /\ host_calls = <<>> /\ attempts = <<>> /\ cand_idx = 0
    /\ core_clr_directories = <<>>
    /\ core_clr_instance = NullInstance /\ instances_created = 0 /\ clr_runtime_host = Null
    /\ startup_flags = {}
    /\ trusted_platform_assemblies_str = NullStr /\ execute_assembly_exit_code = Unsigned(0, 0)
    /\ rc = <<>> /\ spin = 0 /\ scans = 0
    /\ libs = <<>>
    /\ LocIdle /\ EnvIdle /\ PalIdle

\* Lines 20-31: the target must exist and have a directory.
Validate ==
    /\ pc = "run"
    /\ \E exists \in BOOLEAN :
         LET dir == pal_fs_get_directory_name_full_path(executable_path)
             ok  == exists /\ dir # NullStr
         IN  /\ Entered("validate", ok)
             /\ IF ok
                THEN /\ pc' = "discover"
                     /\ executable_working_directory' = dir
                     /\ rc' = rc
                ELSE /\ Return(FailureCode)
                     /\ executable_working_directory' = executable_working_directory
    /\ UNCHANGED <<executable_path, clr_minimum_version, host_calls, attempts, cand_idx,
                   core_clr_directories, core_clr_instance, instances_created, clr_runtime_host,
                   startup_flags, trusted_platform_assemblies_str, execute_assembly_exit_code,
                   spin, scans, libs, locVars, envVars, palVars>>

\* Lines 131-139: the directory of the executable is tried first, with the
\* default version as its version.
TryLoadSelfContained ==
    /\ pc = "discover"
    /\ \E exists \in BOOLEAN, outcome \in LoadOutcomes :
         LET dir   == pal_fs_get_directory_name_full_path(executable_path)
             files == IF exists THEN {PathCchCombine(dir, core_clr_dll)} ELSE {}
             r     == try_load_core_clr(dir, DefaultVersion, files, outcome, libs)
         IN  /\ attempts' = Append(attempts, dir)
             /\ core_clr_instance' = r.instance
             /\ instances_created' = instances_created + (IF r.instance # NullInstance THEN 1 ELSE 0)
             /\ libs' = r.libs
             /\ pc' = IF r.instance # NullInstance THEN "loaded" ELSE "expand"
    /\ stages' = Append(stages, [stage |-> "discover", status |-> "running"])
    /\ UNCHANGED <<executable_path, clr_minimum_version, executable_working_directory,
                   host_calls, cand_idx, core_clr_directories, clr_runtime_host, startup_flags,
                   trusted_platform_assemblies_str, execute_assembly_exit_code, rc, spin, scans,
                   locVars, envVars, palVars>>

\* Lines 142-149: %programfiles% is set, the root is expanded and scanned.
ScanInstalledRuntimes ==
    /\ pc = "expand"
    /\ \E fs \in RootListings :
         LET r == get_core_directories_from_path(InstalledRoot, fs, clr_minimum_version)
         IN  /\ core_clr_directories' = r.directories
             /\ cand_idx' = 1
             /\ scans' = scans + 1
             /\ pc' = IF Len(r.directories) = 0 THEN "loaded" ELSE "candidates"
    /\ UNCHANGED <<executable_path, clr_minimum_version, executable_working_directory, stages,
                   host_calls, attempts, core_clr_instance, instances_created, clr_runtime_host,
                   startup_flags, trusted_platform_assemblies_str, execute_assembly_exit_code,
                   rc, spin, libs, locVars, envVars, palVars>>

\* Lines 145 and pal.cpp 231-237: %programfiles% is not set, the loop of
\* pal_env_expand_str finds the reference again and again.
ExpandSpin ==
    /\ pc \in {"expand", "expand_spin"}
    /\ spin < MaxSpin
    /\ pc' = "expand_spin"
    /\ spin' = spin + 1
    /\ UNCHANGED <<executable_path, clr_minimum_version, executable_working_directory, stages,
                   host_calls, attempts, cand_idx, core_clr_directories, core_clr_instance,
                   instances_created, clr_runtime_host, startup_flags,
                   trusted_platform_assemblies_str, execute_assembly_exit_code, rc, libs,
                   scans, locVars, envVars, palVars>>

\* A loop without its break: it goes on while a candidate is left.
LoopContinues_no_break(instance, next_idx, directories) ==
    next_idx <= Len(directories)

\* Lines 151-157: the loop goes on to the next candidate while no instance
\* was loaded and a candidate is left.
LoopContinues(instance, next_idx, directories) ==
    instance = NullInstance /\ next_idx <= Len(directories)

\* Lines 151-158: one iteration of the loop over the candidates.
TryLoadCandidate ==
    /\ pc = "candidates"
    /\ cand_idx <= Len(core_clr_directories)
    /\ \E outcome \in LoadOutcomes :
         LET clr_directory == core_clr_directories[cand_idx]
             r == try_load_core_clr(clr_directory.root_path, clr_directory.version,
                                    {clr_directory.dll_path}, outcome, libs)
         IN  /\ attempts' = Append(attempts, clr_directory.root_path)
             /\ core_clr_instance' = r.instance
             /\ instances_created' = instances_created + (IF r.instance # NullInstance THEN 1 ELSE 0)
             /\ libs' = r.libs
             /\ cand_idx' = cand_idx + 1
             /\ pc' = IF LoopContinues(r.instance, cand_idx + 1, core_clr_directories)
                      THEN "candidates" ELSE "loaded"
    /\ UNCHANGED <<executable_path, clr_minimum_version, executable_working_directory, stages,
                   host_calls, core_clr_directories, clr_runtime_host, startup_flags,
                   trusted_platform_assemblies_str, execute_assembly_exit_code, rc, spin, scans,
                   locVars, envVars, palVars>>

\* Lines 33-38: no instance is a failure of run.
DiscoveryResult ==
    /\ pc = "loaded"
    /\ stages' = [stages EXCEPT ![Len(stages)].status =
                      IF core_clr_instance # NullInstance THEN "ok" ELSE "failed"]
    /\ IF core_clr_instance # NullInstance
       THEN pc' = "get_host" /\ rc' = rc
       ELSE Return(FailureCode)
    /\ UNCHANGED <<executable_path, clr_minimum_version, executable_working_directory,
                   host_calls, attempts, cand_idx, core_clr_directories, core_clr_instance,
                   instances_created, clr_runtime_host, startup_flags,
                   trusted_platform_assemblies_str, execute_assembly_exit_code, spin, scans, libs,
                   locVars, envVars, palVars>>

\* What GetProcAddress and GetCLRRuntimeHost answer.
HostOutcomes == {"no_symbol", "hr_failed", "ok"}

\* get_clr_runtime_host: the host interface, or Null.
get_clr_runtime_host(instance, outcome) ==
    IF instance = NullInstance THEN Null
    ELSE IF outcome = "no_symbol" THEN Null
    ELSE IF outcome = "hr_failed" THEN Null
    ELSE "ICLRRuntimeHost2"

\* Lines 40-44.
GetHost ==
    /\ pc = "get_host"
    /\ \E outcome \in HostOutcomes :
         LET host == get_clr_runtime_host(core_clr_instance, outcome) IN
         /\ clr_runtime_host' = host
         /\ Entered("get_host", host # Null)
         /\ IF host # Null THEN pc' = "set_flags" /\ rc' = rc ELSE Return(FailureCode)
    /\ UNCHANGED <<executable_path, clr_minimum_version, executable_working_directory,
                   host_calls, attempts, cand_idx, core_clr_directories, core_clr_instance,
                   instances_created, startup_flags, trusted_platform_assemblies_str,
                   execute_assembly_exit_code, spin, scans, libs, locVars, envVars, palVars>>

\* Lines 46-50.
SetStartupFlags ==
    /\ pc = "set_flags"
    /\ \E e \in Environments, hr_ok \in BOOLEAN :
         /\ startup_flags' = create_clr_startup_flags(e)
         /\ Called("SetStartupFlags")
         /\ Entered("SetStartupFlags", hr_ok)
         /\ IF ~FAILED(hr_ok) THEN pc' = "start" /\ rc' = rc ELSE Return(ReturnFalse)
    /\ UNCHANGED <<executable_path, clr_minimum_version, executable_working_directory,
                   attempts, cand_idx, core_clr_directories, core_clr_instance,
                   instances_created, clr_runtime_host, trusted_platform_assemblies_str,
                   execute_assembly_exit_code, spin, scans, libs, locVars, envVars, palVars>>

\* Lines 52-56.
Start ==
    /\ pc = "start"
    /\ \E hr_ok \in BOOLEAN :
         /\ Called("Start")
         /\ Entered("Start", hr_ok)
         /\ IF ~FAILED(hr_ok)
            THEN /\ pc' = "build_tpa" /\ rc' = rc
                 /\ core_clr_instance' \in InstanceAfterStart(core_clr_instance, clr_runtime_host)
            ELSE /\ Return(ReturnFalse)
                 /\ core_clr_instance' = core_clr_instance
    /\ UNCHANGED <<executable_path, clr_minimum_version, executable_working_directory,
                   attempts, cand_idx, core_clr_directories, instances_created,
                   clr_runtime_host, startup_flags, trusted_platform_assemblies_str,
                   execute_assembly_exit_code, spin, scans, libs, locVars, envVars, palVars>>

\* Lines 58-62.
BuildTrustedPlatformAssemblies ==
    /\ pc = "build_tpa"
    /\ \E listing \in RuntimeDirListings :
         LET str == build_trusted_platform_assemblies_str(executable_path, core_clr_instance, listing)
         IN  /\ trusted_platform_assemblies_str' = str
             /\ Entered("build_tpa", Len(str) # 0)
             /\ IF Len(str) # 0 THEN pc' = "create_appdomain" /\ rc' = rc
                ELSE Return(FailureCode)
    /\ UNCHANGED <<executable_path, clr_minimum_version, executable_working_directory,
                   host_calls, attempts, cand_idx, core_clr_directories, core_clr_instance,
                   instances_created, clr_runtime_host, startup_flags,
                   execute_assembly_exit_code, spin, scans, libs, locVars, envVars, palVars>>

\* Lines 309-317: the check create_clr_appdomain makes before it calls the host.
AppDomainPrecondition(path, working_directory, tpa, instance) ==
    ~ \/ Len(path) = 0
      \/ working_directory = NullStr
      \/ Len(tpa) = 0
      \/ instance = NullInstance
      \/ ~instance.loaded
      \/ ~instance.host_created

\* Lines 64-69 and create_clr_appdomain.
CreateAppDomain ==
    /\ pc = "create_appdomain"
    /\ \E hr_ok \in BOOLEAN :
         LET pre == AppDomainPrecondition(executable_path, executable_working_directory,
                                          trusted_platform_assemblies_str, core_clr_instance)
             ok  == pre /\ ~FAILED(hr_ok)
         IN  /\ host_calls' = IF pre THEN Append(host_calls, "CreateAppDomainWithManager")
                              ELSE host_calls
             /\ Entered("create_appdomain", ok)
             /\ IF ok THEN pc' = "execute" /\ rc' = rc ELSE Return(FailureCode)
    /\ UNCHANGED <<executable_path, clr_minimum_version, executable_working_directory,
                   attempts, cand_idx, core_clr_directories, core_clr_instance,
                   instances_created, clr_runtime_host, startup_flags,
                   trusted_platform_assemblies_str, execute_assembly_exit_code, spin, scans, libs,
                   locVars, envVars, palVars>>

\* Lines 71-82.
ExecuteAssembly ==
    /\ pc = "execute"
    /\ \E hr_ok \in BOOLEAN, code \in ExitCodes :
         /\ Called("ExecuteAssembly")
         /\ Entered("ExecuteAssembly", hr_ok)
         /\ execute_assembly_exit_code' = IF hr_ok THEN code ELSE execute_assembly_exit_code
         /\ IF ~FAILED(hr_ok) THEN pc' = "unload" /\ rc' = rc ELSE Return(ReturnFalse)
    /\ UNCHANGED <<executable_path, clr_minimum_version, executable_working_directory,
                   attempts, cand_idx, core_clr_directories, core_clr_instance,
                   instances_created, clr_runtime_host, startup_flags,
                   trusted_platform_assemblies_str, spin, scans, libs, locVars, envVars, palVars>>

\* Lines 84-88.
UnloadAppDomain ==
    /\ pc = "unload"
    /\ \E hr_ok \in BOOLEAN :
         /\ Called("UnloadAppDomain")
         /\ Entered("UnloadAppDomain", hr_ok)
         /\ IF ~FAILED(hr_ok) THEN pc' = "stop" /\ rc' = rc ELSE Return(ReturnFalse)
    /\ UNCHANGED <<executable_path, clr_minimum_version, executable_working_directory,
                   attempts, cand_idx, core_clr_directories, core_clr_instance,
                   instances_created, clr_runtime_host, startup_flags,
                   trusted_platform_assemblies_str, execute_assembly_exit_code, spin, scans, libs,
                   locVars, envVars, palVars>>

\* Lines 90-94.
Stop ==
    /\ pc = "stop"
    /\ \E hr_ok \in BOOLEAN :
         /\ Called("Stop")
         /\ Entered("Stop", hr_ok)
         /\ IF ~FAILED(hr_ok) THEN pc' = "release" /\ rc' = rc ELSE Return(ReturnFalse)
    /\ UNCHANGED <<executable_path, clr_minimum_version, executable_working_directory,
                   attempts, cand_idx, core_clr_directories, core_clr_instance,
                   instances_created, clr_runtime_host, startup_flags,
                   trusted_platform_assemblies_str, execute_assembly_exit_code, spin, scans, libs,
                   locVars, envVars, palVars>>

\* Lines 96-98.
Release ==
    /\ pc = "release"
    /\ Called("Release")
    /\ Entered("Release", TRUE)
    /\ Return(ToInt(execute_assembly_exit_code))
    /\ UNCHANGED <<executable_path, clr_minimum_version, executable_working_directory,
                   attempts, cand_idx, core_clr_directories, core_clr_instance,
                   instances_created, clr_runtime_host, startup_flags,
                   trusted_platform_assemblies_str, execute_assembly_exit_code, spin, scans, libs,
                   locVars, envVars, palVars>>

Next ==
    \/ Validate
    \/ TryLoadSelfContained
    \/ ScanInstalledRuntimes
    \/ ExpandSpin
    \/ TryLoadCandidate
    \/ DiscoveryResult
    \/ GetHost
    \/ SetStartupFlags
    \/ Start
    \/ BuildTrustedPlatformAssemblies
    \/ CreateAppDomain
    \/ ExecuteAssembly
    \/ UnloadAppDomain
    \/ Stop
    \/ Release

Spec == Init /\ [][Next]_vars

(***************************************************************************)
(* The locator on its own                                                   *)
(***************************************************************************)
InitLocator ==
    /\ pc = "locate"
    /\ root_listing \in RootListings
    /\ clr_minimum_version \in MinVersions
    /\ core_clr_directories = <<>>
    /\ examined = {}
    /\ startup_flags = {}
    /\ libs = <<>>
    /\ RunIdle /\ EnvIdle /\ PalIdle

\* A call of get_core_directories_from_path on the installed root.
Locate ==
    /\ pc = "locate"
    /\ LET r == get_core_directories_from_path(InstalledRoot, root_listing, clr_minimum_version)
       IN  /\ core_clr_directories' = r.directories
           /\ examined' = r.examined
    /\ pc' = "located"
    /\ UNCHANGED <<clr_minimum_version, startup_flags, libs, root_listing, runVars, envVars, palVars>>

NextLocator == Locate

SpecLocator == InitLocator /\ [][NextLocator]_vars

(***************************************************************************)
(* The environment toggles on their own                                     *)
(***************************************************************************)
InitEnv ==
    /\ pc = "env"
    /\ environment \in Environments
    /\ bool_result = NoCall
    /\ startup_flags = {}
    /\ clr_minimum_version = DefaultVersion
    /\ core_clr_directories = <<>>
    /\ libs = <<>>
    /\ RunIdle /\ LocIdle /\ PalIdle

\* A call of pal_env_get_variable_bool with the out-parameter set to FALSE
\* by the caller, as create_clr_startup_flags does.
GetVariableBool ==
    /\ pc = "env"
    /\ \E variable \in GcVariables :
         LET r == pal_env_get_variable_bool(environment, variable, FALSE) IN
         bool_result' = [variable |-> variable, ret |-> r.ret, out |-> r.out]
    /\ UNCHANGED <<pc, clr_minimum_version, core_clr_directories, startup_flags, libs,
                   environment, runVars, locVars, palVars>>

\* A call of create_clr_startup_flags.
CreateStartupFlags ==
    /\ pc = "env"
    /\ startup_flags' = create_clr_startup_flags(environment)
    /\ pc' = "flags"
    /\ UNCHANGED <<clr_minimum_version, core_clr_directories, libs, runVars, locVars,
                   envVars, palVars>>

NextEnv == GetVariableBool \/ CreateStartupFlags

SpecEnv == InitEnv /\ [][NextEnv]_vars

(***************************************************************************)
(* pal_load_library and pal_free_library                                    *)
(***************************************************************************)
Platforms == {"PLATFORM_WINDOWS", "PLATFORM_LINUX"}

\* Libraries the calls name.
LibraryNames == { <<"c", ".", "d", "l", "l">>, <<"a", ".", "d", "l", "l">> }

\* pal_free_library: the module table after the call and its return value.
pal_free_library(instance_in, table) ==
    IF instance_in = NullStr THEN [ret |-> FALSE, libs |-> table]
    ELSE [ret |-> TRUE, libs |-> FreeLibrary(table, instance_in)]

\* pal_load_library: the return value, the handle written to instance_out
\* (NullStr when none is written) and the module table after the call.
pal_load_library(build, name_in, pinning_required, outcome, table) ==
    IF name_in = NullStr
    THEN [ret |-> FALSE, instance_out |-> NullStr, libs |-> table]
    ELSE IF outcome = "load_failed"
    THEN [ret |-> FALSE, instance_out |-> NullStr, libs |-> table]
    ELSE IF build = "PLATFORM_WINDOWS"
    THEN IF pinning_required /\ outcome = "pin_failed"
         THEN [ret |-> FALSE, instance_out |-> NullStr,
               libs |-> pal_free_library(name_in, LoadLibrary(table, name_in)).libs]
         ELSE [ret |-> TRUE, instance_out |-> name_in,
               libs |-> IF pinning_required
                        THEN PinLibrary(LoadLibrary(table, name_in), name_in)
                        ELSE LoadLibrary(table, name_in)]
    ELSE [ret |-> TRUE, instance_out |-> name_in, libs |-> LoadLibrary(table, name_in)]

InitPal ==
    /\ pc = "pal"
    /\ platform \in Platforms
    /\ pal_call = NoCall
    /\ libs = <<>>
    /\ startup_flags = {}
    /\ clr_minimum_version = DefaultVersion
    /\ core_clr_directories = <<>>
    /\ RunIdle /\ LocIdle /\ EnvIdle

PalLoadLibrary ==
    /\ pc = "pal"
    /\ \E name_in \in LibraryNames \cup {NullStr}, pinning_required \in BOOLEAN,
          outcome \in LoadOutcomes :
         /\ LibRefs(libs, name_in) < MaxRefs
         /\ LET r == pal_load_library(platform, name_in, pinning_required, outcome, libs) IN
            /\ libs' = r.libs
            /\ pal_call' = [call |-> "pal_load_library", name |-> name_in,
                            pinning_required |-> pinning_required,
                            ret |-> r.ret, instance_out |-> r.instance_out]
    /\ UNCHANGED <<pc, clr_minimum_version, core_clr_directories, startup_flags, platform,
                   runVars, locVars, envVars>>

PalFreeLibrary ==
    /\ pc = "pal"
    /\ \E instance_in \in LibraryNames \cup {NullStr} :
         /\ instance_in # NullStr => LibRefs(libs, instance_in) > 0
         /\ LET r == pal_free_library(instance_in, libs) IN
            /\ libs' = r.libs
            /\ pal_call' = [call |-> "pal_free_library", name |-> instance_in,
                            pinning_required |-> FALSE,
                            ret |-> r.ret, instance_out |-> NullStr]
    /\ UNCHANGED <<pc, clr_minimum_version, core_clr_directories, startup_flags, platform,
                   runVars, locVars, envVars>>

NextPal == PalLoadLibrary \/ PalFreeLibrary

SpecPal == InitPal /\ [][NextPal]_vars

(***************************************************************************)
(* pal_env_expand_str                                                       *)
(***************************************************************************)
\* Longest template passed to pal_env_expand_str.
MaxTemplateLen == 5

\* The value the counter of replacements is followed up to; the code only
\* tests whether it is positive.
MaxReplacements == 2

Min(a, b) == IF a <= b THEN a ELSE b

\* The variable the templates refer to.
ExpandVariable == <<"A">>

\* Characters of the templates of a build.
TemplateChars(build) ==
    IF build = "PLATFORM_WINDOWS" THEN {"%", "A", "x"} ELSE {"$", "{", "}", "A"}

RECURSIVE StringsOfLen(_, _)
StringsOfLen(chars, n) ==
    IF n = 0 THEN { <<>> }
    ELSE { Append(s, c) : s \in StringsOfLen(chars, n - 1), c \in chars }

StringsUpTo(chars, n) == UNION { StringsOfLen(chars, k) : k \in 0..n }

Templates(build) == StringsUpTo(TemplateChars(build), MaxTemplateLen)

\* A reference to a variable in the syntax of a build: %name% or ${name}.
Reference(build, name) ==
    IF build = "PLATFORM_WINDOWS" THEN <<"%">> \o name \o <<"%">>
    ELSE <<"$", "{">> \o name \o <<"}">>

\* The environments of a build: the variable is unset, empty, plain text, or
\* a reference to itself.
ExpandEnvironments(build) ==
    { [n \in {ExpandVariable} |-> v] :
        v \in {Unset, <<>>, <<"A">>, Reference(build, ExpandVariable)} }

\* The class [0-9A-Za-z\\/\(\)] of the Windows expression, over the
\* characters of the templates.
IsNameChar(c) == c \in {"A", "x"}

\* End of the longest run of name characters of s that starts at i.
RECURSIVE NameRunEnd(_, _)
NameRunEnd(s, i) ==
    IF i <= Len(s) /\ IsNameChar(s[i]) THEN NameRunEnd(s, i + 1) ELSE i - 1

\* Index of the first c in s at or after i, 0 when there is none.
RECURSIVE FindFrom(_, _, _)
FindFrom(s, c, i) ==
    IF i > Len(s) THEN 0 ELSE IF s[i] = c THEN i ELSE FindFrom(s, c, i + 1)

NoMatch == [found |-> FALSE, first |-> 0, last |-> 0, name |-> <<>>]

\* A match of %([0-9A-Za-z\\/\(\)]*)% that starts at i.
MatchWindowsAt(s, i) ==
    LET e == NameRunEnd(s, i + 1) IN
    IF s[i] = "%" /\ e + 1 <= Len(s) /\ s[e + 1] = "%"
    THEN [found |-> TRUE, first |-> i, last |-> e + 1, name |-> SubSeq(s, i + 1, e)]
    ELSE NoMatch

\* A match of \$\{([^}]+)\} that starts at i.
MatchLinuxAt(s, i) ==
    LET close == FindFrom(s, "}", i + 2) IN
    IF /\ i + 1 <= Len(s) /\ s[i] = "$" /\ s[i + 1] = "{"
       /\ close > i + 2
    THEN [found |-> TRUE, first |-> i, last |-> close, name |-> SubSeq(s, i + 2, close - 1)]
    ELSE NoMatch

\* std::regex_search: the match with the leftmost start, at or after i.
RECURSIVE regex_search(_, _, _)
regex_search(build, s, i) ==
    IF i > Len(s) THEN NoMatch
    ELSE LET m == IF build = "PLATFORM_WINDOWS" THEN MatchWindowsAt(s, i)
                  ELSE MatchLinuxAt(s, i)
         IN  IF m.found THEN m ELSE regex_search(build, s, i + 1)

\* environment_in_str.replace(match[0].first, match[0].second, value)
Replace(s, m, value) == SubSeq(s, 1, m.first - 1) \o value \o SubSeq(s, m.last + 1, Len(s))

\* What `delete environment_variable_value` does. On Linux the pointer is the
\* one std::getenv returned (line 193), which no new expression produced:
\* the behaviour is undefined, the C library either frees without a visible
\* effect or aborts the process.
DeleteOutcomes(build) ==
    IF build = "PLATFORM_LINUX" THEN {"returns", "aborts"} ELSE {"returns"}

InitExpand ==
    /\ pc = "expand_call"
    /\ platform \in Platforms
    /\ environment \in ExpandEnvironments(platform)
    /\ pal_call = NoCall
    /\ bool_result = NoCall
    /\ startup_flags = {}
    /\ clr_minimum_version = DefaultVersion
    /\ core_clr_directories = <<>>
    /\ libs = <<>>
    /\ RunIdle /\ LocIdle

\* Lines 214-229: the call with a template; a null template returns FALSE.
ExpandCall ==
    /\ pc = "expand_call"
    /\ \E environment_in \in Templates(platform) \cup {NullStr} :
         /\ pal_call' = [call |-> "pal_env_expand_str", environment_in |-> environment_in,
                         environment_in_str |-> environment_in, replacements |-> 0,
                         ret |-> FALSE, environment_out |-> NullStr]
         /\ pc' = IF environment_in = NullStr THEN "expand_done" ELSE "expand_search"
    /\ UNCHANGED <<clr_minimum_version, core_clr_directories, startup_flags, libs, platform,
                   runVars, locVars, envVars>>

\* Lines 231 and 247-254: the condition of the loop, and the return when no
\* reference is found.
ExpandSearch ==
    /\ pc = "expand_search"
    /\ LET m == regex_search(platform, pal_call.environment_in_str, 1) IN
       IF m.found
       THEN pc' = "expand_lookup" /\ pal_call' = pal_call
       ELSE /\ pc' = "expand_done"
            /\ pal_call' = IF pal_call.replacements <= 0
                           THEN [pal_call EXCEPT !.ret = FALSE]
                           ELSE [pal_call EXCEPT !.ret = TRUE,
                                     !.environment_out = pal_call.environment_in_str]
    /\ UNCHANGED <<clr_minimum_version, core_clr_directories, startup_flags, libs, platform,
                   runVars, locVars, envVars>>

\* Lines 232-244: the body of the loop.
ExpandLookup ==
    /\ pc = "expand_lookup"
    /\ LET m == regex_search(platform, pal_call.environment_in_str, 1)
           v == pal_env_get_variable(environment, m.name)
       IN  IF ~v.ret
           THEN pc' = "expand_search" /\ pal_call' = pal_call
           ELSE \E deleted \in DeleteOutcomes(platform) :
                  IF deleted = "aborts"
                  THEN pc' = "expand_aborted" /\ pal_call' = pal_call
                  ELSE /\ pc' = "expand_search"
                       /\ pal_call' = [pal_call EXCEPT
                              !.environment_in_str = Replace(pal_call.environment_in_str, m, v.value),
                              !.replacements = Min(pal_call.replacements + 1, MaxReplacements)]
    /\ UNCHANGED <<clr_minimum_version, core_clr_directories, startup_flags, libs, platform,
                   runVars, locVars, envVars>>

NextExpand == ExpandCall \/ ExpandSearch \/ ExpandLookup

SpecExpand == InitExpand /\ [][NextExpand]_vars

\* The loop runs on while it can: no step of the function waits for anything.
SpecExpandFair == SpecExpand /\ WF_vars(NextExpand)

(***************************************************************************)
(* pal_fs_path_combine, Linux branch                                        *)
(***************************************************************************)
\* Longest path1 and longest path2 of the calls that are enumerated.
MaxPathLen == 3

PathChars == {"a", ".", "/"}

Paths == StringsUpTo(PathChars, MaxPathLen)

Str_a_b == <<"a", "/", "b">>

\* The calls of the test table of lines 361-376 and of the same shape.
TestTable ==
    { << <<"/", "a", "/", "b", "/", "c">>, <<"/", "c", "/", "d", "/", "e">> >>,
      << <<"/", "a", "/", "b", "/", "c">>, <<"d">> >>,
      << <<"a", ".">>, <<".">> >>,
      << <<"a", ".", "/", "b", ".">>, <<".">> >>,
      << Str_a_b, <<".", ".">> >>,
      << Str_a_b, <<".", ".", "/">> >>,
      << Str_a_b, <<".", ".", "/", ".", ".">> >>,
      << Str_a_b, <<".", "/", ".", ".", "/", "c">> >>,
      << <<"a">>, <<".", ".", "/", "a">> >>,
      << <<"a">>, <<"c", ".", ".", "/", "a">> >>,
      << Str_a_b,
         <<".", ".", "/", ".", "/", "c", "/", "d", "/", ".", ".", "/", ".", ".", "/", ".">> >> }

\* The calls that are made: all pairs of short paths, and the test table.
PathPairs == (Paths \X Paths) \cup TestTable

\* The byte a read before the start of a string finds.
StrayBytes == {"/", "x"}

\* strstr: index of the first occurrence of pat in s at or after i, 0 when
\* there is none.
RECURSIVE StrStr(_, _, _)
StrStr(s, pat, i) ==
    IF i + Len(pat) - 1 > Len(s) THEN 0
    ELSE IF SubSeq(s, i, i + Len(pat) - 1) = pat THEN i
    ELSE StrStr(s, pat, i + 1)

\* The result of path_combine_recursive: what the call did ("return 0",
\* "return 1", a std::bad_function_call thrown, or undefined behaviour) and
\* the buffer it leaves.
Outcome(ret, path) == [ret |-> ret, path |-> path]

\* Lines 392-408, the loop that resolves "/../". memcpy copies the rest of
\* the string over the parent directory; when the two ranges overlap its
\* behaviour is undefined, and memcpy_defined tells whether the build copies
\* as memmove would.
RECURSIVE ResolveParentDir(_, _)
ResolveParentDir(path, memcpy_defined) ==
    LET str == StrStr(path, <<"/", ".", ".", "/">>, 1) IN
    IF str = 0 THEN Outcome("continue", path)
    ELSE LET head        == SubSeq(path, 1, str - 1)
             slash       == FindLastOf(head, "/")
             current_dir == SubSeq(path, str + 4, Len(path))
             overlap     == Len(current_dir) + 1 > (str + 4) - (slash + 1)
         IN  IF slash = 0 THEN Outcome("return 1", head)
             ELSE IF overlap /\ ~memcpy_defined THEN Outcome("undefined", path)
             ELSE ResolveParentDir(SubSeq(path, 1, slash) \o current_dir, memcpy_defined)

\* Lines 411-418, the loop that resolves "/./".
RECURSIVE ResolveCurrentDir(_, _)
ResolveCurrentDir(path, memcpy_defined) ==
    LET str == StrStr(path, <<"/", ".", "/">>, 1) IN
    IF str = 0 THEN Outcome("continue", path)
    ELSE LET rest    == SubSeq(path, str + 3, Len(path))
             overlap == Len(rest) + 1 > 2
         IN  IF overlap /\ ~memcpy_defined THEN Outcome("undefined", path)
             ELSE ResolveCurrentDir(SubSeq(path, 1, str) \o rest, memcpy_defined)

\* The std::function the lambda holds under the name path_combine_recursive:
\* the capture [path_combine_recursive] copies the variable at line 383,
\* before the assignment, when it is still empty; calling an empty
\* std::function throws std::bad_function_call.
path_combine_recursive_captured(path) == Outcome("bad_function_call", path)

\* The string that starts n characters before the end of path, the stray
\* byte standing for each character before the start of the buffer.
TailFrom(path, n, stray) ==
    IF n <= Len(path) THEN SubSeq(path, Len(path) - n + 1, Len(path))
    ELSE [i \in 1..(n - Len(path)) |-> stray] \o path

\* Lines 420-433: the tail of the path.
RemoveTail(path, stray) ==
    IF path[Len(path)] = "/" THEN Outcome("return 0", SubSeq(path, 1, Len(path) - 1))
    ELSE IF TailFrom(path, 2, stray) = <<"/", ".">>
    THEN IF Len(path) >= 2 THEN Outcome("return 0", SubSeq(path, 1, Len(path) - 2))
         ELSE Outcome("undefined", path)
    ELSE IF TailFrom(path, 3, stray) = <<"/", ".", ".">>
    THEN path_combine_recursive_captured(path \o <<"/">>)
    ELSE Outcome("return 0", path)

\* path_combine_recursive, lines 383-434.
path_combine_recursive(path, stray, memcpy_defined) ==
    IF Len(path) = 0 THEN Outcome("return 0", path)
    ELSE LET parent == ResolveParentDir(path, memcpy_defined) IN
         IF parent.ret # "continue" THEN parent
         ELSE LET current == ResolveCurrentDir(parent.path, memcpy_defined) IN
              IF current.ret # "continue" THEN current
              ELSE RemoveTail(current.path, stray)

\* path_combine, lines 436-443: the outcome of the call and the string
\* written to path_out, NullStr when none is written.
path_combine(buffer, stray, memcpy_defined) ==
    LET r == path_combine_recursive(buffer, stray, memcpy_defined) IN
    IF r.ret = "return 0" THEN [ret |-> "TRUE", path_out |-> r.path]
    ELSE IF r.ret = "return 1" THEN [ret |-> "FALSE", path_out |-> NullStr]
    ELSE [ret |-> r.ret, path_out |-> NullStr]

\* The last character of path1, read before the start of the string when
\* path1 is empty (line 464).
LastChar(path1, stray) == IF Len(path1) = 0 THEN stray ELSE path1[Len(path1)]

\* pal_fs_path_combine, lines 328-334 and 380-470.
pal_fs_path_combine(path1, path2, stray, memcpy_defined) ==
    IF path1 = NullStr \/ path2 = NullStr THEN [ret |-> "FALSE", path_out |-> NullStr]
    ELSE IF Len(path2) > 0 /\ path2[1] = "/"
    THEN path_combine(path2, stray, memcpy_defined)
    ELSE path_combine(
            path1 \o (IF LastChar(path1, stray) # "/" THEN <<"/">> ELSE <<>>) \o path2,
            stray, memcpy_defined)

InitPath ==
    /\ pc = "path"
    /\ platform = "PLATFORM_LINUX"
    /\ pal_call = NoCall
    /\ startup_flags = {}
    /\ clr_minimum_version = DefaultVersion
    /\ core_clr_directories = <<>>
    /\ libs = <<>>
    /\ RunIdle /\ LocIdle /\ EnvIdle

\* A call of pal_fs_path_combine.
PathCombine ==
    /\ pc = "path"
    /\ \E pair \in PathPairs \cup {<<NullStr, <<"a">>>>, <<<<"a">>, NullStr>>},
          stray \in StrayBytes, memcpy_defined \in BOOLEAN :
         LET r == pal_fs_path_combine(pair[1], pair[2], stray, memcpy_defined) IN
         pal_call' = [call |-> "pal_fs_path_combine", path1 |-> pair[1], path2 |-> pair[2],
                      ret |-> r.ret, path_out |-> r.path_out,
                      again_ret |-> "none", again_out |-> NullStr]
    /\ pc' = "path_combined"
    /\ UNCHANGED <<clr_minimum_version, core_clr_directories, startup_flags, libs, platform,
                   runVars, locVars, envVars>>

\* The path a call returned is combined with ".".
PathCombineAgain ==
    /\ pc = "path_combined"
    /\ pal_call.ret = "TRUE"
    /\ \E stray \in StrayBytes, memcpy_defined \in BOOLEAN :
         LET r == pal_fs_path_combine(pal_call.path_out, <<".">>, stray, memcpy_defined) IN
         pal_call' = [pal_call EXCEPT !.again_ret = r.ret, !.again_out = r.path_out]
    /\ pc' = "path_again"
    /\ UNCHANGED <<clr_minimum_version, core_clr_directories, startup_flags, libs, platform,
                   runVars, locVars, envVars>>

NextPath == PathCombine \/ PathCombineAgain

SpecPath == InitPath /\ [][NextPath]_vars

(***************************************************************************)
(* The trusted platform assemblies on their own                             *)
(***************************************************************************)
\* Names of the files the runtime directory is filled with.
AssemblyFileNames ==
    { <<"a", ".", "d", "l", "l">>,
      <<"a", ".", "n", "i", ".", "d", "l", "l">>,
      <<"f", ".", "e", "x", "e">>,
      <<"f", ".", "n", "i", ".", "e", "x", "e">>,
      <<"a", ".", "w", "i", "n", "m", "d">>,
      <<"a", ".", "n", "i", ".", "w", "i", "n", "m", "d">> }

\* The enumerations of the runtime directory: the runtime library and up to
\* MaxFiles of the files, in the order the OS yields them.
AssemblyDirListings ==
    UNION { { <<core_clr_dll>> \o l : l \in { m \in StringsOfLen(AssemblyFileNames, n) : NoFileTwice(m) } } :
            n \in 0..MaxFiles }

\* Directories a runtime is loaded from: the directory of the executable and
\* an installed version.
RuntimeRoots == { <<"A">>, <<"P", "\\", "2">> }

InitTpa ==
    /\ pc = "tpa"
    /\ pal_call = NoCall
    /\ platform = "PLATFORM_WINDOWS"
    /\ startup_flags = {}
    /\ clr_minimum_version = DefaultVersion
    /\ core_clr_directories = <<>>
    /\ libs = <<>>
    /\ RunIdle /\ LocIdle /\ EnvIdle

\* A call of build_trusted_platform_assemblies_str for a loaded runtime.
BuildTpaStr ==
    /\ pc = "tpa"
    /\ \E root \in RuntimeRoots, listing \in AssemblyDirListings, path \in ExecutablePaths :
         LET instance == NewInstance(PathCchCombine(root, core_clr_dll), root,
                                     PathCchCombine(root, core_clr_dll), DefaultVersion)
         IN  pal_call' = [call |-> "build_trusted_platform_assemblies_str",
                          root |-> root, listing |-> listing, executable_path |-> path,
                          str |-> build_trusted_platform_assemblies_str(path, instance, listing)]
    /\ pc' = "tpa_built"
    /\ UNCHANGED <<clr_minimum_version, core_clr_directories, startup_flags, libs, platform,
                   runVars, locVars, envVars>>

NextTpa == BuildTpaStr

SpecTpa == InitTpa /\ [][NextTpa]_vars

(***************************************************************************)
(* pal_fs_directory_exists and pal_fs_file_exists                           *)
(***************************************************************************)
\* What the file system holds at a path.
PathKinds == {"directory", "file", "absent"}

\* The paths that are probed.
ProbedPaths ==
    { PathCchCombine(InstalledRoot, d) : d \in DirNames }
        \cup { InstalledRoot, ExecutablePath, <<"A">> }

\* GetFileAttributes: the attribute bits of the entry as the set of the bits
\* that are set; INVALID_FILE_ATTRIBUTES, all bits set, when it fails.
GetFileAttributes(kind) ==
    IF kind = "directory" THEN {"FILE_ATTRIBUTE_DIRECTORY"}
    ELSE IF kind = "file" THEN {"FILE_ATTRIBUTE_ARCHIVE"}
    ELSE {"FILE_ATTRIBUTE_DIRECTORY", "FILE_ATTRIBUTE_ARCHIVE", "FILE_ATTRIBUTE_READONLY"}

\* pal_fs_directory_exists: the return value and the out-parameter, which
\* keeps the caller's value when nothing is written.
pal_fs_directory_exists(build, path_in, kind, out_before) ==
    IF path_in = NullStr THEN [ret |-> FALSE, out |-> out_before]
    ELSE IF build = "PLATFORM_WINDOWS"
    THEN [ret |-> FALSE,    \* line 827: return 0
          out |-> (GetFileAttributes(kind) \cap {"FILE_ATTRIBUTE_DIRECTORY"}) # {}]
    ELSE IF kind = "directory" THEN [ret |-> TRUE, out |-> TRUE]
    ELSE [ret |-> FALSE, out |-> FALSE]

\* pal_fs_file_exists: PathFileExists on Windows, access(F_OK) on Linux; both
\* succeed for every entry that exists.
pal_fs_file_exists(build, file_path_in, kind, out_before) ==
    IF file_path_in = NullStr THEN [ret |-> FALSE, out |-> out_before]
    ELSE [ret |-> TRUE, out |-> kind # "absent"]

InitProbe ==
    /\ pc = "probe"
    /\ platform \in Platforms
    /\ pal_call = NoCall
    /\ startup_flags = {}
    /\ clr_minimum_version = DefaultVersion
    /\ core_clr_directories = <<>>
    /\ libs = <<>>
    /\ RunIdle /\ LocIdle /\ EnvIdle

\* A call of pal_fs_directory_exists.
DirectoryExists ==
    /\ pc = "probe"
    /\ \E path_in \in ProbedPaths \cup {NullStr}, kind \in PathKinds, out_before \in BOOLEAN :
         LET r == pal_fs_directory_exists(platform, path_in, kind, out_before) IN
         pal_call' = [call |-> "pal_fs_directory_exists", path |-> path_in, kind |-> kind,
                      ret |-> r.ret, out |-> r.out]
    /\ UNCHANGED <<pc, clr_minimum_version, core_clr_directories, startup_flags, libs, platform,
                   runVars, locVars, envVars>>

\* A call of pal_fs_file_exists.
FileExists ==
    /\ pc = "probe"
    /\ \E path_in \in ProbedPaths \cup {NullStr}, kind \in PathKinds, out_before \in BOOLEAN :
         LET r == pal_fs_file_exists(platform, path_in, kind, out_before) IN
         pal_call' = [call |-> "pal_fs_file_exists", path |-> path_in, kind |-> kind,
                      ret |-> r.ret, out |-> r.out]
    /\ UNCHANGED <<pc, clr_minimum_version, core_clr_directories, startup_flags, libs, platform,
                   runVars, locVars, envVars>>

NextProbe == DirectoryExists \/ FileExists

SpecProbe == InitProbe /\ [][NextProbe]_vars

(***************************************************************************)
(* pal_str_endswith and the file filter of pal_fs_list_impl, Linux branch   *)
(***************************************************************************)
\* Longest string passed to pal_str_endswith.
MaxStrLen == 3

StrChars == {"a", "."}

Strs == StringsUpTo(StrChars, MaxStrLen)

\* The characters that lie in memory before a string, nearest last.
MemoryBefore == StringsOfLen(StrChars, MaxStrLen)

\* strlen(src) - strlen(str) in size_t: a difference below zero wraps
\* around to 2^64 - value.
SizeDiff(a, b) ==
    IF a >= b THEN [wrapped |-> FALSE, value |-> a - b]
    ELSE [wrapped |-> TRUE, value |-> b - a]

\* diff > 0 for a size_t.
SizePositive(diff) == diff.wrapped \/ diff.value > 0

\* The string at &src[diff]: the rest of src from diff on, and for a wrapped
\* diff the string that starts diff.value characters before src.
StringAt(src, diff, before) ==
    IF diff.wrapped
    THEN SubSeq(before, Len(before) - diff.value + 1, Len(before)) \o src
    ELSE SubSeq(src, diff.value + 1, Len(src))

\* pal_str_endswith, lines 830-839.
pal_str_endswith(src, str, before) ==
    IF src = NullStr \/ str = NullStr THEN FALSE
    ELSE LET diff == SizeDiff(Len(src), Len(str)) IN
         SizePositive(diff) /\ StringAt(src, diff, before) = str

\* Entries of a directory as readdir yields them: d_name, d_type and, for a
\* symbolic link, whether stat finds a regular file behind it.
DirentNames == { <<".", "a">>, <<"a", ".", "a">>, <<"a">> }

Dirents ==
    { [d_name |-> n, d_type |-> t, regular |-> r] :
        n \in DirentNames, t \in {"DT_REG", "DT_DIR", "DT_LNK"}, r \in BOOLEAN }

\* The entry is a regular file, directly or behind a link.
IsRegular(entry) ==
    entry.d_type = "DT_REG" \/ (entry.d_type = "DT_LNK" /\ entry.regular)

DirentListings ==
    { l \in StringsUpTo(Dirents, MaxFiles) :
        /\ \A i, j \in 1..Len(l) : i # j => l[i].d_name # l[j].d_name
        /\ \A i \in 1..Len(l) : l[i].d_type = "DT_LNK" \/ l[i].regular = (l[i].d_type = "DT_REG") }

\* pal_fs_list_impl with type 1 (files), lines 580-665: the paths of the
\* regular files that pass the extension filter, in enumeration order.
RECURSIVE pal_fs_list_impl(_, _, _, _)
pal_fs_list_impl(path_in, entries, filter_extension_in, before) ==
    IF Len(entries) = 0 THEN <<>>
    ELSE LET entry == entries[1]
             rest  == pal_fs_list_impl(path_in, Tail(entries), filter_extension_in, before)
             absolute_path_s == path_in \o <<"/">> \o entry.d_name
         IN  IF entry.d_type \notin {"DT_REG", "DT_LNK"} THEN rest
             ELSE IF /\ filter_extension_in # NullStr
                     /\ FALSE = pal_str_endswith(entry.d_name, filter_extension_in, before)
                  THEN rest
             ELSE IF entry.d_type = "DT_LNK" /\ ~entry.regular THEN rest
             ELSE <<absolute_path_s>> \o rest

InitStr ==
    /\ pc = "str"
    /\ platform = "PLATFORM_LINUX"
    /\ pal_call = NoCall
    /\ startup_flags = {}
    /\ clr_minimum_version = DefaultVersion
    /\ core_clr_directories = <<>>
    /\ libs = <<>>
    /\ RunIdle /\ LocIdle /\ EnvIdle

\* A call of pal_str_endswith.
StrEndsWith ==
    /\ pc = "str"
    /\ \E src \in Strs \cup {NullStr}, str \in Strs \cup {NullStr}, before \in MemoryBefore :
         pal_call' = [call |-> "pal_str_endswith", src |-> src, str |-> str,
                      ret |-> pal_str_endswith(src, str, before)]
    /\ pc' = "str_called"
    /\ UNCHANGED <<clr_minimum_version, core_clr_directories, startup_flags, libs, platform,
                   runVars, locVars, envVars>>

\* A call of pal_fs_list_files with an extension filter.
ListFiles ==
    /\ pc = "str"
    /\ \E entries \in DirentListings, filter \in {<<".", "a">>, <<"a">>},
          before \in MemoryBefore :
         pal_call' = [call |-> "pal_fs_list_files", entries |-> entries, filter |-> filter,
                      files_out |-> pal_fs_list_impl(<<"P">>, entries, filter, before)]
    /\ pc' = "str_called"
    /\ UNCHANGED <<clr_minimum_version, core_clr_directories, startup_flags, libs, platform,
                   runVars, locVars, envVars>>

NextStr == StrEndsWith \/ ListFiles

SpecStr == InitStr /\ [][NextStr]_vars

(***************************************************************************)
(* Properties of run                                                        *)
(***************************************************************************)
IsPrefix(a, b) == Len(a) <= Len(b) /\ \A i \in 1..Len(a) : a[i] = b[i]

\* The stage a hosting-interface call belongs to.
StageOfCall(call) == IF call = "CreateAppDomainWithManager" THEN "create_appdomain" ELSE call

StageEntered(stage) == \E i \in 1..Len(stages) : stages[i].stage = stage

SomeStageFailed == \E i \in 1..Len(stages) : stages[i].status = "failed"

AllStagesSucceeded ==
    /\ Len(stages) = Len(StageOrder)
    /\ \A i \in 1..Len(stages) : stages[i].status = "ok"

\* C1: the stages of run occur only in the order of StageOrder, a stage is
\* entered only when every earlier stage succeeded, and once a stage failed
\* run has returned: no later stage is entered and no further call on the
\* hosting interface is issued, in particular none that rolls back.
C1_StagesLinear ==
    /\ IsPrefix([i \in 1..Len(stages) |-> stages[i].stage], StageOrder)
    /\ \A i \in 1..(Len(stages) - 1) : stages[i].status = "ok"
    /\ IsPrefix(host_calls, HostCallOrder)
    /\ \A i \in 1..Len(host_calls) : StageEntered(StageOfCall(host_calls[i]))
    /\ SomeStageFailed => pc = "done"

\* C1 witness: Stop failed after every earlier stage succeeded, and Release
\* was not called.
C1_Witness ==
    /\ pc = "done"
    /\ Len(stages) = 10
    /\ stages[10] = [stage |-> "Stop", status |-> "failed"]
    /\ host_calls[Len(host_calls)] = "Stop"

\* C2: whenever a stage of run fails, run returns the failure code -1.
C2_FailureReturnsMinusOne ==
    (pc = "done" /\ SomeStageFailed) => rc = <<FailureCode>>

\* C3: when every stage succeeds, run returns the int that has the 32 bits
\* of the exit code ExecuteAssembly wrote, and Release was called before.
C3_ExitCodePropagated ==
    (pc = "done" /\ AllStagesSucceeded) =>
        /\ Len(rc) = 1
        /\ rc[1] % Two16 = execute_assembly_exit_code.lo
        /\ (rc[1] \div Two16) % Two16 = execute_assembly_exit_code.hi
        /\ rc[1] >= -(Two15 * (Two16 - 1)) - Two15
        /\ rc[1] <= Two15 * (Two16 - 1) + (Two15 - 1)
        /\ host_calls[Len(host_calls)] = "Release"

\* C3 witness: a full success whose exit code has the top bit set.
C3_Witness ==
    /\ pc = "done" /\ AllStagesSucceeded
    /\ execute_assembly_exit_code = Unsigned(Two15, 0)
    /\ rc[1] < 0

\* The directory the loader was called on in attempt i was loaded and pinned.
AttemptLoaded(i) == LibPinned(libs, PathCchCombine(attempts[i], core_clr_dll))

\* C4: the loader is called on the directory of the executable first and
\* then on the installed candidates, which ascend by version and are not
\* below the minimum; the root is enumerated at most once and only after the
\* first attempt yielded no instance; the instance is the first location that
\* loads, no location after it is attempted, and at most one instance is
\* created.
C4_DiscoveryOrder ==
    /\ IsPrefix(attempts,
                <<pal_fs_get_directory_name_full_path(executable_path)>>
                \o [i \in 1..Len(core_clr_directories) |-> core_clr_directories[i].root_path])
    /\ \A i \in 1..Len(core_clr_directories) :
         ~VersionLess(core_clr_directories[i].version, clr_minimum_version)
    /\ \A i, j \in 1..Len(core_clr_directories) :
         i < j => VersionLess(core_clr_directories[i].version, core_clr_directories[j].version)
    /\ scans <= 1
    /\ scans = 1 => (Len(attempts) >= 1 /\ ~AttemptLoaded(1))
    /\ instances_created <= 1
    /\ core_clr_instance # NullInstance =>
         /\ instances_created = 1
         /\ Len(attempts) >= 1
         /\ core_clr_instance.directory.root_path = attempts[Len(attempts)]
         /\ AttemptLoaded(Len(attempts))
         /\ \A i \in 1..(Len(attempts) - 1) : ~AttemptLoaded(i)
    /\ (core_clr_instance = NullInstance /\ pc \notin {"run", "discover"}) =>
         \A i \in 1..Len(attempts) : ~AttemptLoaded(i)

Version_2_0_0 == [major |-> 2, minor |-> 0, patch |-> 0, prerelease |-> <<>>]

Version_2_1_5 == [major |-> 2, minor |-> 1, patch |-> 5, prerelease |-> <<>>]

\* C4 witness: installed 2.0.0 and 2.1.5, minimum 2.0.0, nothing beside the
\* executable: 2.0.0 was loaded and 2.1.5 was not tried.
C4_Witness ==
    /\ pc = "get_host"
    /\ clr_minimum_version = Version_2_0_0
    /\ Len(core_clr_directories) = 2
    /\ core_clr_directories[1].version = Version_2_0_0
    /\ core_clr_directories[2].version = Version_2_1_5
    /\ Len(attempts) = 2
    /\ core_clr_instance # NullInstance
    /\ core_clr_instance.directory.version = Version_2_0_0

\* C7: the loader returns an instance only when the library was loaded and
\* pinned, and when it returns none no library it loaded stays loaded and
\* unpinned.
C7_LoaderLeavesNoPartialState ==
    /\ core_clr_instance # NullInstance => LibPinned(libs, core_clr_instance.directory.dll_path)
    /\ LoadedUnpinned(libs) = {}

(***************************************************************************)
(* Properties of the locator                                                *)
(***************************************************************************)
\* C5: the sequence get_core_directories_from_path returns ascends strictly
\* by version and holds no version below the minimum.
C5_SortedAboveMinimum ==
    pc = "located" =>
        /\ \A i, j \in 1..Len(core_clr_directories) :
             i < j => VersionLess(core_clr_directories[i].version, core_clr_directories[j].version)
        /\ \A i \in 1..Len(core_clr_directories) :
             ~VersionLess(core_clr_directories[i].version, clr_minimum_version)

\* C5 witness: 2.10.0 is enumerated before 2.1.5, both hold the library, and
\* the result lists 2.1.5 first.
C5_Witness ==
    /\ pc = "located"
    /\ Len(root_listing.entries) = 2
    /\ root_listing.entries[1] = [name |-> <<"2", ".", "1", "0", ".", "0">>, dir |-> TRUE, dll |-> TRUE]
    /\ root_listing.entries[2] = [name |-> <<"2", ".", "1", ".", "5">>, dir |-> TRUE, dll |-> TRUE]
    /\ Len(core_clr_directories) = 2
    /\ core_clr_directories[1].version = Version_2_1_5

\* The entries of the root that are to become candidates: subdirectories
\* whose name is a version not below the minimum and which hold the library.
Qualifies(entry, minimum) ==
    /\ entry.dir
    /\ entry.dll
    /\ ParseVersion(entry.name) # ParseError
    /\ ~VersionLess(ParseVersion(entry.name), minimum)

\* C6: the result holds one candidate for each qualifying subdirectory and
\* nothing else, and the scan examines every subdirectory of the root.
C6_ExactlyQualifying ==
    pc = "located" =>
        LET entries == root_listing.entries
            subdirs == { k \in 1..Len(entries) : entries[k].dir }
            wanted  == { k \in subdirs : Qualifies(entries[k], clr_minimum_version) }
            path(k) == PathCchCombine(InstalledRoot, entries[k].name)
        IN  /\ Len(core_clr_directories) = Cardinality(wanted)
            /\ \A k \in wanted :
                 \E i \in 1..Len(core_clr_directories) :
                    core_clr_directories[i] =
                        [root_path |-> path(k),
                         dll_path  |-> PathCchCombine(path(k), core_clr_dll),
                         version   |-> ParseVersion(entries[k].name)]
            /\ examined = { path(k) : k \in subdirs }

\* C6 witness: a name that is no version is enumerated before 2.0.0, and
\* 2.0.0 is in the result.
C6_Witness ==
    /\ pc = "located"
    /\ Len(root_listing.entries) = 2
    /\ root_listing.entries[1] = [name |-> <<"b">>, dir |-> TRUE, dll |-> TRUE]
    /\ root_listing.entries[2] = [name |-> <<"2", ".", "0", ".", "0">>, dir |-> TRUE, dll |-> TRUE]
    /\ clr_minimum_version = Version_2_0_0
    /\ Len(core_clr_directories) = 1
    /\ core_clr_directories[1].version = Version_2_0_0

(***************************************************************************)
(* Properties of the PAL                                                    *)
(***************************************************************************)
\* C8: when pal_load_library is called with pinning required and returns
\* success the library is pinned, and when it returns failure it hands out
\* no handle.
C8_SuccessMeansPinned ==
    pal_call.call = "pal_load_library" =>
        /\ (pal_call.pinning_required /\ pal_call.ret) => LibPinned(libs, pal_call.name)
        /\ ~pal_call.ret => pal_call.instance_out = NullStr

\* The four letters of "true" in any case.
IsTrueText(v) ==
    /\ Len(v) = 4
    /\ v[1] \in {"t", "T"} /\ v[2] \in {"r", "R"} /\ v[3] \in {"u", "U"} /\ v[4] \in {"e", "E"}

\* The boolean a set value stands for.
MeansTrue(v) == v = <<"1">> \/ IsTrueText(v)

\* C9: pal_env_get_variable_bool yields true exactly when the variable is
\* set and its value is "1" or "true" in any case.
C9_BoolInterpretation ==
    bool_result # NoCall =>
        LET v == environment[bool_result.variable] IN
        bool_result.out <=> (v # Unset /\ MeansTrue(v))

\* The bit of a GC toggle as the claim describes it.
ToggleAsDescribed(flag, variable, baseline) ==
    LET v == environment[variable] IN
    (flag \in startup_flags) <=> (IF v = Unset THEN baseline ELSE MeansTrue(v))

\* C10: create_clr_startup_flags sets the two single-domain bits, and each GC
\* bit keeps its baseline when its variable is unset and equals the boolean
\* of the value when it is set.
C10_StartupFlags ==
    pc = "flags" =>
        /\ "STARTUP_LOADER_OPTIMIZATION_SINGLE_DOMAIN" \in startup_flags
        /\ "STARTUP_SINGLE_APPDOMAIN" \in startup_flags
        /\ ToggleAsDescribed("STARTUP_SERVER_GC", server_gc_environment_var, FALSE)
        /\ ToggleAsDescribed("STARTUP_CONCURRENT_GC", concurrent_gc_environment_var, TRUE)

(***************************************************************************)
(* Properties of pal_env_expand_str                                         *)
(***************************************************************************)
\* The characters the reference syntax of a build is written with.
ReferenceChars(build) == IF build = "PLATFORM_WINDOWS" THEN {"%"} ELSE {"$", "{", "}"}

\* Text without reference syntax.
PlainText(build, s) == \A i \in 1..Len(s) : s[i] \notin ReferenceChars(build)

\* The template contains a variable-reference pattern of the build.
ContainsReference(build, t) ==
    \E i, j \in 1..Len(t) :
        IF build = "PLATFORM_WINDOWS"
        THEN /\ i < j /\ t[i] = "%" /\ t[j] = "%"
             /\ \A k \in (i + 1)..(j - 1) : IsNameChar(t[k])
        ELSE /\ i + 2 < j /\ t[i] = "$" /\ t[i + 1] = "{" /\ t[j] = "}"
             /\ \A k \in (i + 2)..(j - 1) : t[k] # "}"

\* The call of pal_env_expand_str is over.
ExpandOver == pc \in {"expand_done", "expand_aborted"}

\* C11: on a template without a variable-reference pattern
\* pal_env_expand_str returns failure and writes no output; on a template
\* with exactly one reference, to a set variable whose value has no reference
\* syntax, it returns success with the reference replaced by the value and
\* the rest of the template unchanged.
C11_ExpandOneReference ==
    (ExpandOver /\ pal_call.environment_in # NullStr) =>
        LET t     == pal_call.environment_in
            ref   == Reference(platform, ExpandVariable)
            value == environment[ExpandVariable]
        IN  /\ ~ContainsReference(platform, t) =>
                  /\ pc = "expand_done"
                  /\ ~pal_call.ret /\ pal_call.environment_out = NullStr
            /\ \A i \in 0..Len(t) :
                  LET pre  == SubSeq(t, 1, i)
                      post == SubSeq(t, i + Len(ref) + 1, Len(t))
                  IN  ( /\ t = pre \o ref \o post
                        /\ PlainText(platform, pre) /\ PlainText(platform, post)
                        /\ value # Unset /\ PlainText(platform, value) ) =>
                          /\ pc = "expand_done"
                          /\ pal_call.ret
                          /\ pal_call.environment_out = pre \o value \o post
                          /\ PlainText(platform, pal_call.environment_out)

\* C12: every call of pal_env_expand_str comes to its end, whatever the
\* template and the environment are.
C12_ExpandTerminates == <>ExpandOver

(***************************************************************************)
(* Properties of pal_fs_path_combine                                        *)
(***************************************************************************)
\* The path the normalization starts from: path2 alone when it is absolute,
\* otherwise path1 and path2 joined by exactly one separator.
JoinedPath(path1, path2) ==
    IF Len(path2) > 0 /\ path2[1] = "/" THEN path2
    ELSE IF Len(path1) > 0 /\ path1[Len(path1)] = "/" THEN path1 \o path2
    ELSE path1 \o <<"/">> \o path2

\* The segments of a path: the pieces between its separators.
RECURSIVE PathSegments(_)
PathSegments(path) ==
    LET p == FindFirstOf(path, "/") IN
    IF p = 0 THEN <<path>>
    ELSE <<SubSeq(path, 1, p - 1)>> \o PathSegments(DropFirst(path, p))

Escaped == <<"escaped">>

\* The segments left of segs[i..] on top of the kept ones: "." and empty
\* segments are dropped, ".." removes the nearest kept segment, and Escaped
\* is the result when ".." finds none to remove.
RECURSIVE ReduceSegments(_, _, _)
ReduceSegments(kept, segs, i) ==
    IF i > Len(segs) THEN kept
    ELSE IF segs[i] = <<>> \/ segs[i] = <<".">> THEN ReduceSegments(kept, segs, i + 1)
    ELSE IF segs[i] = <<".", ".">>
    THEN IF Len(kept) = 0 THEN Escaped
         ELSE ReduceSegments(SubSeq(kept, 1, Len(kept) - 1), segs, i + 1)
    ELSE ReduceSegments(Append(kept, segs[i]), segs, i + 1)

RECURSIVE JoinSegments(_, _)
JoinSegments(segs, i) ==
    IF i > Len(segs) THEN <<>> ELSE <<"/">> \o segs[i] \o JoinSegments(segs, i + 1)

\* The segment-wise normalization of a joined path: the first component
\* stays, the others are reduced; Escaped when a ".." has no parent left.
Normalized(joined) ==
    LET segs == PathSegments(joined)
        kept == ReduceSegments(<<>>, segs, 2)
    IN  IF kept = Escaped THEN Escaped ELSE segs[1] \o JoinSegments(kept, 1)

\* A call with two strings, the first not empty.
CombineCalled ==
    /\ pal_call.call = "pal_fs_path_combine"
    /\ pal_call.path1 # NullStr /\ pal_call.path2 # NullStr
    /\ Len(pal_call.path1) > 0

\* C13: when a ".." of the joined path has no parent segment left to cancel,
\* pal_fs_path_combine returns FALSE and writes no path, wherever the ".."
\* stands.
C13_EscapeFails ==
    (CombineCalled /\ Normalized(JoinedPath(pal_call.path1, pal_call.path2)) = Escaped) =>
        (pal_call.ret = "FALSE" /\ pal_call.path_out = NullStr)

\* C14: when the normalization does not fail and the joined path has no
\* repeated separator, pal_fs_path_combine returns TRUE with the segment-wise
\* normalization of the joined path.
C14_CombineNormalizes ==
    LET joined == JoinedPath(pal_call.path1, pal_call.path2) IN
    ( /\ CombineCalled
      /\ StrStr(joined, <<"/", "/">>, 1) = 0
      /\ Normalized(joined) # Escaped ) =>
        (pal_call.ret = "TRUE" /\ pal_call.path_out = Normalized(joined))

\* A path with nothing left to reduce.
IsReduced(p) ==
    /\ StrStr(p, <<"/", ".", "/">>, 1) = 0
    /\ StrStr(p, <<"/", ".", ".", "/">>, 1) = 0
    /\ (Len(p) > 0 => p[Len(p)] # "/")

\* C15: every path pal_fs_path_combine returns has nothing left to reduce,
\* and combining it with "." succeeds and returns it unchanged.
C15_CombineIdempotent ==
    (pal_call.call = "pal_fs_path_combine" /\ pal_call.ret = "TRUE") =>
        /\ IsReduced(pal_call.path_out)
        /\ pc = "path_again" =>
              (pal_call.again_ret = "TRUE" /\ pal_call.again_out = pal_call.path_out)

(***************************************************************************)
(* Properties of the trusted platform assemblies                            *)
(***************************************************************************)
\* The paths of the serialized list.
TpaPaths == SplitOn(pal_call.str, ";")

\* The path of a file of the runtime directory.
TpaPathOf(name) == pal_call.root \o <<PAL_DIRECTORY_SEPARATOR_C>> \o name

\* The runtime directory holds a file of this name.
TpaDirHas(name) == InSeq(name, pal_call.listing)

Name_a_ni_dll == <<"a", ".", "n", "i", ".", "d", "l", "l">>

\* C16: the trusted-assembly list holds no path twice, and the target
\* executable exactly once.
C16_NoDuplicatePaths ==
    pal_call.call = "build_trusted_platform_assemblies_str" =>
        /\ \A i, j \in 1..Len(TpaPaths) : i # j => TpaPaths[i] # TpaPaths[j]
        /\ Cardinality({ i \in 1..Len(TpaPaths) : TpaPaths[i] = pal_call.executable_path }) = 1

\* A file matched by two patterns and an executable that the scan found
\* are both in the list.
C16_Witness ==
    /\ pc = "tpa_built"
    /\ TpaDirHas(Name_a_ni_dll)
    /\ InSeq(TpaPathOf(Name_a_ni_dll), TpaPaths)
    /\ \E name \in AssemblyFileNames :
          TpaDirHas(name) /\ TpaPathOf(name) = pal_call.executable_path

\* The extensions of the assemblies.
AssemblyExtensions == { <<"d", "l", "l">>, <<"e", "x", "e">>, <<"w", "i", "n", "m", "d">> }

\* The name of the unoptimized file an optimized file X.ni.ext stands for,
\* <<>> when the name is not of an optimized file.
UnoptimizedName(name) ==
    IF \E ext \in AssemblyExtensions :
          /\ Len(name) > Len(ext) + 4
          /\ SubSeq(name, Len(name) - Len(ext) - 3, Len(name)) = <<".", "n", "i", ".">> \o ext
    THEN LET ext == CHOOSE e \in AssemblyExtensions :
                       /\ Len(name) > Len(e) + 4
                       /\ SubSeq(name, Len(name) - Len(e) - 3, Len(name)) = <<".", "n", "i", ".">> \o e
         IN  SubSeq(name, 1, Len(name) - Len(ext) - 4) \o <<".">> \o ext
    ELSE <<>>

\* C17: when the runtime directory holds an optimized file and the
\* unoptimized file of the same logical name, the list holds the optimized
\* one and not the unoptimized one.
C17_OptimizedShadows ==
    pal_call.call = "build_trusted_platform_assemblies_str" =>
        \A i \in 1..Len(pal_call.listing) :
            LET name == pal_call.listing[i] IN
            (UnoptimizedName(name) # <<>> /\ TpaDirHas(UnoptimizedName(name))) =>
                /\ InSeq(TpaPathOf(name), TpaPaths)
                /\ ~InSeq(TpaPathOf(UnoptimizedName(name)), TpaPaths)

(***************************************************************************)
(* Properties of the existence probes                                       *)
(***************************************************************************)
\* C18: for a path that is not null the existence probes return success;
\* pal_fs_directory_exists yields true exactly when a directory is at the
\* path, pal_fs_file_exists yields true when a file is at the path, and
\* both yield false when nothing is there.
C18_AbsenceIsNotAnError ==
    /\ (pal_call.call = "pal_fs_directory_exists" /\ pal_call.path # NullStr) =>
          (pal_call.ret /\ (pal_call.out <=> pal_call.kind = "directory"))
    /\ (pal_call.call = "pal_fs_file_exists" /\ pal_call.path # NullStr) =>
          /\ pal_call.ret
          /\ pal_call.kind = "file" => pal_call.out
          /\ pal_call.kind = "absent" => ~pal_call.out

(***************************************************************************)
(* Properties of the runtime instance                                       *)
(***************************************************************************)
\* The stage was entered and succeeded.
StageSucceeded(stage) ==
    \E i \in 1..Len(stages) : stages[i].stage = stage /\ stages[i].status = "ok"

\* C19: when run comes to create the execution context the instance is
\* loaded, has its host created and holds the started host, so that
\* create_clr_appdomain always reaches the call of the host; and the host is
\* never marked created before Start succeeded.
C19_HostCreatedAfterStart ==
    /\ pc = "create_appdomain" =>
          /\ core_clr_instance.loaded
          /\ core_clr_instance.host_created
          /\ core_clr_instance.host = clr_runtime_host
    /\ StageEntered("create_appdomain") =>
          \E i \in 1..Len(host_calls) : host_calls[i] = "CreateAppDomainWithManager"
    /\ (core_clr_instance # NullInstance /\ core_clr_instance.host_created) =>
          StageSucceeded("Start")

(***************************************************************************)
(* Properties of the extension filter                                       *)
(***************************************************************************)
\* str is a suffix of src.
IsSuffix(str, src) ==
    Len(str) <= Len(src) /\ SubSeq(src, Len(src) - Len(str) + 1, Len(src)) = str

\* The paths of the regular files of entries[i..] whose name ends with the
\* filter.
RECURSIVE FilesEndingWith(_, _, _)
FilesEndingWith(entries, filter, i) ==
    IF i > Len(entries) THEN <<>>
    ELSE (IF IsRegular(entries[i]) /\ IsSuffix(filter, entries[i].d_name)
          THEN << <<"P", "/">> \o entries[i].d_name >> ELSE <<>>)
         \o FilesEndingWith(entries, filter, i + 1)

\* C20: pal_str_endswith is true exactly when str is a suffix of src, also
\* for equal strings and for a src shorter than str, and pal_fs_list_files
\* with a filter returns exactly the regular files whose name ends with it.
C20_ExactSuffixMatch ==
    /\ (pal_call.call = "pal_str_endswith"
            /\ pal_call.src # NullStr /\ pal_call.str # NullStr) =>
          (pal_call.ret <=> IsSuffix(pal_call.str, pal_call.src))
    /\ pal_call.call = "pal_fs_list_files" =>
          pal_call.files_out = FilesEndingWith(pal_call.entries, pal_call.filter, 1)

====
